---- MODULE Spec2Model ----
(***************************************************************************)
(* Storage-proof requests of the light protocol                            *)
(* (ethcore/light/src/net/request/storage.rs): the incomplete request with *)
(* its three Field<H256> slots, the operations of the IncompleteRequest    *)
(* trait implemented for it (check_outputs, note_outputs, fill, complete,  *)
(* adjust_refs), the complete request and the response.                    *)
(*                                                                         *)
(* Three specifications share the variables:                               *)
(*   Spec        one request under fill / adjust_refs / encode / complete, *)
(*               started from every request of the bounded domain;         *)
(*   SpecStream  one request and a growing output table;                   *)
(*   SpecBatch   a batch of requests: push, responses, reshaping.          *)
(***************************************************************************)
EXTENDS Integers, Sequences, FiniteSets, TLC

VARIABLES req, alive, last, orig, table, lazy,
          requests, output_kinds, outputs, answered, phase, completed

vars == <<req, alive, last, orig, table, lazy,
          requests, output_kinds, outputs, answered, phase, completed>>

(***************************************************************************)
(* Bounds of the model.                                                    *)
(***************************************************************************)
\* H256 values are 1..NumHashes.
NumHashes == 2
\* Request indices a BackReference may hold are 0..MaxReq.
MaxReq == 1
\* Output indices a BackReference may hold are 0..MaxIdx.
MaxIdx == 1
\* A batch holds at most MaxBatch requests, at the positions 0..MaxBatch-1.
MaxBatch == 3

Hashes == 1..NumHashes
\* The payloads of Output::Number: one value stands for the kind.
Numbers == {0}
ReqIdxs == 0..MaxReq
OutIdxs == 0..MaxIdx
Keys == ReqIdxs \X OutIdxs

(***************************************************************************)
(* Field<H256>, Output, NoSuchOutput (types of the parent module, used by  *)
(* storage.rs through `use super::{Field, NoSuchOutput, OutputKind,        *)
(* Output}`).                                                              *)
(***************************************************************************)
Scalar(v) == [tag |-> "Scalar", val |-> v]
BackReference(r, i) == [tag |-> "BackReference", req |-> r, idx |-> i]
IsScalar(f) == f.tag = "Scalar"
IsBackReference(f) == f.tag = "BackReference"

Fields == {Scalar(h) : h \in Hashes} \cup {BackReference(k[1], k[2]) : k \in Keys}

OutputHash(h) == [kind |-> "Hash", val |-> h]
OutputNumber(n) == [kind |-> "Number", val |-> n]
Outputs == {OutputHash(h) : h \in Hashes} \cup {OutputNumber(n) : n \in Numbers}

NoSuchOutput == [ok |-> FALSE, err |-> "NoSuchOutput"]
Ok(v) == [ok |-> TRUE, val |-> v]

\* struct IncompleteRequest { block_hash, address_hash, key_hash }
FieldNames == {"block_hash", "address_hash", "key_hash"}
IncompleteRequest(b, a, k) == [block_hash |-> b, address_hash |-> a, key_hash |-> k]
Requests == {IncompleteRequest(b, a, k) : b \in Fields, a \in Fields, k \in Fields}

\* struct CompleteRequest { block_hash, address_hash, key_hash }
CompleteRequest(b, a, k) == [block_hash |-> b, address_hash |-> a, key_hash |-> k]

\* The (request_index, output_index) pairs the BackReference fields of r hold.
RefKeys(r) == {<<r[f].req, r[f].idx>> : f \in {g \in FieldNames : IsBackReference(r[g])}}

(***************************************************************************)
(* fill (lines 60-81).  An oracle is a function from (req, idx) to          *)
(* Result<Output, NoSuchOutput>.                                           *)
(***************************************************************************)
OracleResults == {NoSuchOutput} \cup {Ok(o) : o \in Outputs}

\* The match of lines 62-65, 69-72, 76-79 on one field.
FillField(f, oracle) ==
    IF IsBackReference(f)
    THEN LET res == oracle[<<f.req, f.idx>>]
         IN  IF res.ok /\ res.val.kind = "Hash"
             THEN Scalar(res.val.val)
             ELSE BackReference(f.req, f.idx)
    ELSE f

\* A slip of the second block: its result is stored into self.block_hash.
FillWritesBlockHash(r, oracle) ==
    LET r1 == [r EXCEPT !.block_hash = FillField(r.block_hash, oracle)]
        r2 == IF IsBackReference(r1.address_hash)
              THEN [r1 EXCEPT !.block_hash = FillField(r1.address_hash, oracle)]
              ELSE r1
    IN  [r2 EXCEPT !.key_hash = FillField(r2.key_hash, oracle)]

\* A slip of the `_` arms: the reference is rebuilt with req and idx swapped.
FillSwapsRef(r, oracle) ==
    LET keep(f) == IF IsBackReference(f)
                   THEN LET g == FillField(f, oracle)
                        IN  IF IsBackReference(g) /\ <<f.idx, f.req>> \in Keys
                            THEN BackReference(f.idx, f.req) ELSE g
                   ELSE f
    IN  IncompleteRequest(keep(r.block_hash), keep(r.address_hash), keep(r.key_hash))

\* A slip of the first arm: any Ok output resolves the field, whatever its kind.
FillAnyKind(r, oracle) ==
    LET any(f) == IF IsBackReference(f) /\ oracle[<<f.req, f.idx>>].ok
                  THEN Scalar(oracle[<<f.req, f.idx>>].val.val)
                  ELSE f
    IN  IncompleteRequest(any(r.block_hash), any(r.address_hash), any(r.key_hash))

Fill(r, oracle) ==
    LET r1 == [r EXCEPT !.block_hash = FillField(r.block_hash, oracle)]
        r2 == [r1 EXCEPT !.address_hash = FillField(r1.address_hash, oracle)]
    IN  [r2 EXCEPT !.key_hash = FillField(r2.key_hash, oracle)]

(***************************************************************************)
(* complete (lines 83-89).                                                 *)
(***************************************************************************)
\* Field::into_scalar: the scalar, or NoSuchOutput for a BackReference.
IntoScalar(f) == IF IsScalar(f) THEN Ok(f.val) ELSE NoSuchOutput

\* A slip: key_hash is taken without the `?`, a BackReference passing as 0.
CompleteSkipsKeyHash(r) ==
    LET b == IntoScalar(r.block_hash)
        a == IntoScalar(r.address_hash)
    IN  IF ~b.ok THEN NoSuchOutput
        ELSE IF ~a.ok THEN NoSuchOutput
        ELSE Ok(CompleteRequest(b.val, a.val,
                                IF IsScalar(r.key_hash) THEN r.key_hash.val ELSE 0))

\* A slip: address_hash and key_hash are built from each other's field.
CompleteSwapsFields(r) ==
    LET b == IntoScalar(r.block_hash)
        a == IntoScalar(r.address_hash)
        k == IntoScalar(r.key_hash)
    IN  IF ~b.ok THEN NoSuchOutput
        ELSE IF ~a.ok THEN NoSuchOutput
        ELSE IF ~k.ok THEN NoSuchOutput
        ELSE Ok(CompleteRequest(b.val, k.val, a.val))

Complete(r) ==
    LET b == IntoScalar(r.block_hash)
        a == IntoScalar(r.address_hash)
        k == IntoScalar(r.key_hash)
    IN  IF ~b.ok THEN NoSuchOutput
        ELSE IF ~a.ok THEN NoSuchOutput
        ELSE IF ~k.ok THEN NoSuchOutput
        ELSE Ok(CompleteRequest(b.val, a.val, k.val))

(***************************************************************************)
(* adjust_refs (lines 91-95).  A mapping is a function on request indices. *)
(***************************************************************************)
Mappings == [ReqIdxs -> ReqIdxs]
Identity == [i \in ReqIdxs |-> i]
\* g after f
Compose(g, f) == [i \in ReqIdxs |-> g[f[i]]]

\* Field::adjust_req: the request index of a BackReference goes through the
\* mapping; a Scalar is left as it is.
AdjustReq(f, mapping) ==
    IF IsBackReference(f) THEN BackReference(mapping[f.req], f.idx) ELSE f

\* A slip: block_hash is adjusted twice and address_hash not at all.
AdjustRefsBlockHashTwice(r, mapping) ==
    IncompleteRequest(AdjustReq(AdjustReq(r.block_hash, mapping), mapping),
                      r.address_hash,
                      AdjustReq(r.key_hash, mapping))

\* A slip: the key_hash line (94) is missing.
AdjustRefsSkipsKeyHash(r, mapping) ==
    IncompleteRequest(AdjustReq(r.block_hash, mapping),
                      AdjustReq(r.address_hash, mapping),
                      r.key_hash)

AdjustRefs(r, mapping) ==
    IncompleteRequest(AdjustReq(r.block_hash, mapping),
                      AdjustReq(r.address_hash, mapping),
                      AdjustReq(r.key_hash, mapping))

(***************************************************************************)
(* check_outputs (lines 38-54) and note_outputs (lines 56-58).  The         *)
(* predicate is given by the set of (req, idx, kind) triples it accepts;   *)
(* `calls` lists the triples it was invoked with, in order.                *)
(***************************************************************************)
\* The arguments of f at lines 42, 46, 50.
CheckCall(f) == <<f.req, f.idx, "Hash">>

\* A slip: the key_hash block (lines 49-51) is missing.
CheckOutputsSkipsKeyHash(r, accepts) ==
    LET cb == IF IsBackReference(r.block_hash) THEN <<CheckCall(r.block_hash)>> ELSE <<>>
        ca == IF IsBackReference(r.address_hash) THEN <<CheckCall(r.address_hash)>> ELSE <<>>
    IN  IF IsBackReference(r.block_hash) /\ CheckCall(r.block_hash) \notin accepts
        THEN [result |-> NoSuchOutput, calls |-> cb]
        ELSE IF IsBackReference(r.address_hash) /\ CheckCall(r.address_hash) \notin accepts
        THEN [result |-> NoSuchOutput, calls |-> cb \o ca]
        ELSE [result |-> Ok("unit"), calls |-> cb \o ca]

\* A slip: the key_hash block asks for OutputKind::Number.
CheckOutputsAsksNumber(r, accepts) ==
    LET cb == IF IsBackReference(r.block_hash) THEN <<CheckCall(r.block_hash)>> ELSE <<>>
        ca == IF IsBackReference(r.address_hash) THEN <<CheckCall(r.address_hash)>> ELSE <<>>
        kc == <<r.key_hash.req, r.key_hash.idx, "Number">>
        ck == IF IsBackReference(r.key_hash) THEN <<kc>> ELSE <<>>
    IN  IF IsBackReference(r.block_hash) /\ CheckCall(r.block_hash) \notin accepts
        THEN [result |-> NoSuchOutput, calls |-> cb]
        ELSE IF IsBackReference(r.address_hash) /\ CheckCall(r.address_hash) \notin accepts
        THEN [result |-> NoSuchOutput, calls |-> cb \o ca]
        ELSE IF IsBackReference(r.key_hash) /\ kc \notin accepts
        THEN [result |-> NoSuchOutput, calls |-> cb \o ca \o ck]
        ELSE [result |-> Ok("unit"), calls |-> cb \o ca \o ck]

\* A slip: the `?` are missing, the errors are collected and returned at the end.
CheckOutputsNoEarlyReturn(r, accepts) ==
    LET cb == IF IsBackReference(r.block_hash) THEN <<CheckCall(r.block_hash)>> ELSE <<>>
        ca == IF IsBackReference(r.address_hash) THEN <<CheckCall(r.address_hash)>> ELSE <<>>
        ck == IF IsBackReference(r.key_hash) THEN <<CheckCall(r.key_hash)>> ELSE <<>>
        all == cb \o ca \o ck
    IN  IF \E i \in 1..Len(all) : all[i] \notin accepts
        THEN [result |-> NoSuchOutput, calls |-> all]
        ELSE [result |-> Ok("unit"), calls |-> all]

CheckOutputs(r, accepts) ==
    LET cb == IF IsBackReference(r.block_hash) THEN <<CheckCall(r.block_hash)>> ELSE <<>>
        ca == IF IsBackReference(r.address_hash) THEN <<CheckCall(r.address_hash)>> ELSE <<>>
        ck == IF IsBackReference(r.key_hash) THEN <<CheckCall(r.key_hash)>> ELSE <<>>
    IN  IF IsBackReference(r.block_hash) /\ CheckCall(r.block_hash) \notin accepts
        THEN [result |-> NoSuchOutput, calls |-> cb]
        ELSE IF IsBackReference(r.address_hash) /\ CheckCall(r.address_hash) \notin accepts
        THEN [result |-> NoSuchOutput, calls |-> cb \o ca]
        ELSE IF IsBackReference(r.key_hash) /\ CheckCall(r.key_hash) \notin accepts
        THEN [result |-> NoSuchOutput, calls |-> cb \o ca \o ck]
        ELSE [result |-> Ok("unit"), calls |-> cb \o ca \o ck]

\* A slip: the output is declared at index 1.
NoteOutputsIndexOne(r) == {<<1, "Hash">>}

\* A slip: f is called a second time, with index 1.
NoteOutputsCallsTwice(r) == <<<<0, "Hash">>, <<1, "Hash">>>>

\* The calls of f, in order: f(0, OutputKind::Hash), whatever the fields hold.
NoteOutputsCalls(r) == <<<<0, "Hash">>>>

\* The (output_index, kind) pairs f is called with.
NoteOutputs(r) == {NoteOutputsCalls(r)[i] : i \in 1..Len(NoteOutputsCalls(r))}

(***************************************************************************)
(* Response (lines 109-116) and fill_outputs (lines 118-123).              *)
(***************************************************************************)
Response(proof, value) == [proof |-> proof, value |-> value]

\* A slip: the output is exposed at index 1.
FillOutputsCallsIndexOne(response) == <<<<1, OutputHash(response.value)>>>>

\* The calls of f, in order: f(0, Output::Hash(self.value)).
FillOutputsCalls(response) == <<<<0, OutputHash(response.value)>>>>

\* The (output_index, Output) pairs f is called with.
FillOutputs(response) ==
    {FillOutputsCalls(response)[i] : i \in 1..Len(FillOutputsCalls(response))}

\* Vec<Bytes> proofs: no node, one node, two nodes.
Proofs == {<<>>, <<<<1>>>>, <<<<1, 2>>, <<>>>>}
Responses == {Response(p, v) : p \in Proofs, v \in Hashes}

(***************************************************************************)
(* Wire encoding.  #[derive(RlpEncodable, RlpDecodable)] stands on         *)
(* IncompleteRequest (line 24) and on Response (line 110); CompleteRequest *)
(* (line 99) derives Debug, Clone, PartialEq, Eq only.                     *)
(***************************************************************************)
\* With the derive added to CompleteRequest as well.
RlpEncodableWithComplete == {"IncompleteRequest", "CompleteRequest", "Response"}

RlpEncodable == {"IncompleteRequest", "Response"}

RequestForms == {"IncompleteRequest", "CompleteRequest"}

\* The encoding of a Field: a discriminant, then the scalar or the pair.
RlpField(f) == IF IsScalar(f) THEN <<0, f.val>> ELSE <<1, f.req, f.idx>>

\* The derived encoder: the list of the fields in declaration order (27-31).
RlpIncompleteRequest(r) ==
    <<RlpField(r.block_hash), RlpField(r.address_hash), RlpField(r.key_hash)>>

DecoderError == [ok |-> FALSE, err |-> "DecoderError"]

\* The decoding of a Field: the discriminant selects the variant.
RlpDecodeField(item) ==
    IF Len(item) = 2 /\ item[1] = 0 THEN Ok(Scalar(item[2]))
    ELSE IF Len(item) = 3 /\ item[1] = 1 THEN Ok(BackReference(item[2], item[3]))
    ELSE DecoderError

\* The derived decoder: a list of three items, read in declaration order.
RlpDecodeIncompleteRequest(items) ==
    IF Len(items) # 3 THEN DecoderError
    ELSE LET b == RlpDecodeField(items[1])
             a == RlpDecodeField(items[2])
             k == RlpDecodeField(items[3])
         IN  IF b.ok /\ a.ok /\ k.ok
             THEN Ok(IncompleteRequest(b.val, a.val, k.val))
             ELSE DecoderError

\* A slip in the encoder: the proof is written as the empty list.
RlpResponseDropsProof(response) == <<<<>>, response.value>>

\* The derived encoder of Response: the list [proof, value] (lines 113-115).
RlpResponse(response) == <<response.proof, response.value>>

\* The derived decoder of Response: a list of two items, proof then value.
RlpDecodeResponse(items) ==
    IF Len(items) # 2 THEN DecoderError
    ELSE Ok(Response(items[1], items[2]))

(***************************************************************************)
(* Spec: one request, started from any request of the domain.              *)
(***************************************************************************)
\* fill consults the oracle only at the keys of r's BackReference fields
\* (lines 61-62, 68-69, 75-76): the oracles drawn range over every answer at
\* those keys and answer NoSuchOutput elsewhere.
OraclesFor(r) ==
    {[k \in Keys |-> IF k \in RefKeys(r) THEN t[k] ELSE NoSuchOutput] :
        t \in [RefKeys(r) -> OracleResults]}

NoOracle == [k \in Keys |-> NoSuchOutput]

IdleBatch ==
    /\ orig = IncompleteRequest(Scalar(1), Scalar(1), Scalar(1))
    /\ table = NoOracle
    /\ lazy = [done |-> FALSE]
    /\ requests = <<>>
    /\ output_kinds = {}
    /\ outputs = NoOracle
    /\ answered = 0
    /\ phase = "none"
    /\ completed = {}

Init ==
    /\ req \in Requests
    /\ alive = TRUE
    /\ last = [op |-> "new"]
    /\ IdleBatch

\* request.fill(oracle); the caller may pass the oracle of the previous fill again.
DoFill ==
    /\ alive
    /\ \E oracle \in OraclesFor(req) \cup (IF last.op = "fill" THEN {last.oracle} ELSE {}) :
        /\ req' = Fill(req, oracle)
        /\ last' = [op |-> "fill", pre |-> req, oracle |-> oracle, post |-> req',
                    repeat |-> (last.op = "fill" /\ last.oracle = oracle)]
    /\ UNCHANGED <<alive, orig, table, lazy, requests, output_kinds, outputs, answered, phase, completed>>

\* request.adjust_refs(mapping)
DoAdjustRefs ==
    /\ alive
    /\ \E mapping \in Mappings :
        /\ req' = AdjustRefs(req, mapping)
        /\ last' = [op |-> "adjust_refs", pre |-> req, mapping |-> mapping, post |-> req']
    /\ UNCHANGED <<alive, orig, table, lazy, requests, output_kinds, outputs, answered, phase, completed>>

\* request.complete(): the request is consumed, whatever the result.
DoComplete ==
    /\ alive
    /\ alive' = FALSE
    /\ last' = [op |-> "complete", pre |-> req, result |-> Complete(req)]
    /\ UNCHANGED <<req, orig, table, lazy, requests, output_kinds, outputs, answered, phase, completed>>

\* rlp::encode of a request form that has an encoder: the live incomplete
\* request, or the CompleteRequest the last complete() returned.
DoEncode ==
    /\ \E form \in RlpEncodable \cap RequestForms :
        /\ IF form = "IncompleteRequest"
           THEN alive
           ELSE ~alive /\ last.op = "complete" /\ last.result.ok
        /\ last' = IF form = "IncompleteRequest"
                   THEN [op |-> "encode", form |-> form, pre |-> req,
                         bytes |-> RlpIncompleteRequest(req)]
                   ELSE [op |-> "encode", form |-> form, pre |-> last.pre,
                         bytes |-> <<last.result.val.block_hash,
                                     last.result.val.address_hash,
                                     last.result.val.key_hash>>]
    /\ UNCHANGED <<req, alive, orig, table, lazy, requests, output_kinds, outputs, answered, phase, completed>>

Next == DoFill \/ DoAdjustRefs \/ DoComplete \/ DoEncode

Spec == Init /\ [][Next]_vars

(***************************************************************************)
(* SpecStream: one request and an output table that only grows.  The table *)
(* is the oracle (a lookup that fails with NoSuchOutput for a key not yet  *)
(* registered).  req is filled after every registration; lazy is the       *)
(* result of one fill of the original request with the table as it stands. *)
(* Outputs are registered at the keys the original request refers to:      *)
(* fill never asks for another key.                                        *)
(***************************************************************************)
InitStream ==
    /\ req \in Requests
    /\ orig = req
    /\ table = NoOracle
    /\ lazy = [done |-> FALSE]
    /\ alive = TRUE
    /\ last = [op |-> "new"]
    /\ requests = <<>>
    /\ output_kinds = {}
    /\ outputs = NoOracle
    /\ answered = 0
    /\ phase = "none"
    /\ completed = {}

\* An output is registered at a key that has none yet, and fill is called.
StreamRegister ==
    /\ ~lazy.done
    /\ \E k \in RefKeys(orig), out \in Outputs :
        /\ ~table[k].ok
        /\ table' = [table EXCEPT ![k] = Ok(out)]
        /\ req' = Fill(req, table')
        /\ last' = [op |-> "register", key |-> k, out |-> out]
    /\ UNCHANGED <<alive, orig, lazy, requests, output_kinds, outputs, answered, phase, completed>>

\* One fill of the original request, after the outputs registered so far.
StreamFillOnce ==
    /\ ~lazy.done
    /\ lazy' = [done |-> TRUE, req |-> Fill(orig, table)]
    /\ last' = [op |-> "fill_once"]
    /\ UNCHANGED <<req, alive, orig, table, requests, output_kinds, outputs, answered, phase, completed>>

NextStream == StreamRegister \/ StreamFillOnce

SpecStream == InitStream /\ [][NextStream]_vars

(***************************************************************************)
(* SpecBatch: a batch of storage requests.  The batch itself (its builder, *)
(* its output table, its reshaping) belongs to the scheduler's side of the *)
(* request module; it drives check_outputs, note_outputs, fill,            *)
(* fill_outputs and adjust_refs of this file as the design describes:      *)
(*   - a request is added at batch-construction time, validated by         *)
(*     check_outputs against the outputs declared (note_outputs) by the    *)
(*     requests already in the batch; a rejected request aborts the        *)
(*     construction;                                                       *)
(*   - responses arrive in request order; the outputs a response exposes   *)
(*     are registered under (request_index, output_index) and every        *)
(*     request downstream is filled from the table;                        *)
(*   - an answered entry may be removed and two unanswered neighbours      *)
(*     exchanged; the survivors' references are renumbered by adjust_refs  *)
(*     and validated again by check_outputs, and a reshaping that fails    *)
(*     the validation is refused.                                          *)
(***************************************************************************)
Positions == 0..(MaxBatch - 1)
BatchKeys == Positions \X OutIdxs

\* check_outputs and adjust_refs never read a scalar's value: the requests
\* built carry the scalar 1; fields resolved from responses take any hash.
BatchFields == {Scalar(1)} \cup {BackReference(k[1], k[2]) : k \in BatchKeys}
BatchCandidates ==
    {IncompleteRequest(b, a, k) : b \in BatchFields, a \in BatchFields, k \in BatchFields}

NoOutputs == [k \in BatchKeys |-> NoSuchOutput]

\* The outputs the requests of seq declare, keyed by position.
DeclaredKinds(seq) ==
    UNION {{<<p - 1, n[1], n[2]>> : n \in NoteOutputs(seq[p])} : p \in 1..Len(seq)}

\* Every request of seq passes check_outputs against the requests before it.
Validated(seq) ==
    \A p \in 1..Len(seq) :
        CheckOutputs(seq[p], DeclaredKinds(SubSeq(seq, 1, p - 1))).result.ok

InitBatch ==
    /\ requests = <<>>
    /\ output_kinds = {}
    /\ outputs = NoOutputs
    /\ answered = 0
    /\ phase = "building"
    /\ completed = {}
    /\ last = [op |-> "new"]
    /\ req = IncompleteRequest(Scalar(1), Scalar(1), Scalar(1))
    /\ alive = FALSE
    /\ orig = IncompleteRequest(Scalar(1), Scalar(1), Scalar(1))
    /\ table = NoOracle
    /\ lazy = [done |-> FALSE]

\* Add a request: check_outputs with the builder's predicate, then note_outputs.
Push ==
    /\ phase = "building"
    /\ Len(requests) < MaxBatch
    /\ \E r \in BatchCandidates :
        LET pos == Len(requests)
            res == CheckOutputs(r, output_kinds)
        IN  /\ last' = [op |-> "push", pre |-> r, pos |-> pos, result |-> res.result]
            /\ IF res.result.ok
               THEN /\ requests' = Append(requests, r)
                    /\ output_kinds' =
                          output_kinds \cup {<<pos, n[1], n[2]>> : n \in NoteOutputs(r)}
                    /\ phase' = phase
               ELSE /\ phase' = "aborted"
                    /\ UNCHANGED <<requests, output_kinds>>
    /\ UNCHANGED <<req, alive, orig, table, lazy, outputs, answered, completed>>

\* The batch is complete and goes in flight.
Build ==
    /\ phase = "building"
    /\ Len(requests) >= 1
    /\ phase' = "in_flight"
    /\ last' = [op |-> "build"]
    /\ UNCHANGED <<req, alive, orig, table, lazy, requests, output_kinds, outputs, answered, completed>>

\* The response to the next unanswered request: fill_outputs registers its
\* outputs, and every request after it is filled from the table.
Respond ==
    /\ phase = "in_flight"
    /\ answered < Len(requests)
    /\ \E value \in Hashes :
        LET response == Response(<<>>, value)
            exposed == FillOutputs(response)
            registered == [k \in BatchKeys |->
                            IF k[1] = answered /\ \E e \in exposed : e[1] = k[2]
                            THEN Ok((CHOOSE e \in exposed : e[1] = k[2])[2])
                            ELSE outputs[k]]
        IN  /\ outputs' = registered
            /\ requests' = [p \in 1..Len(requests) |->
                              IF p - 1 > answered
                              THEN Fill(requests[p], registered)
                              ELSE requests[p]]
            /\ last' = [op |-> "respond", pos |-> answered, value |-> value]
    /\ answered' = answered + 1
    /\ UNCHANGED <<req, alive, orig, table, lazy, output_kinds, phase, completed>>

\* The batch with the entries in the order `order` (old positions), the
\* references renumbered through `mapping`.
Reshaped(order, mapping) ==
    [p \in 1..Len(order) |-> AdjustRefs(requests[order[p] + 1], mapping)]

\* Remove the answered entry at position k.
Remove ==
    /\ phase = "in_flight"
    /\ \E k \in 0..(answered - 1) :
        LET n == Len(requests)
            order == [p \in 1..(n - 1) |-> IF p - 1 < k THEN p - 1 ELSE p]
            mapping == [i \in Positions |-> IF i > k THEN i - 1 ELSE i]
            new == Reshaped(order, mapping)
        IN  IF Validated(new)
            THEN /\ requests' = new
                 /\ output_kinds' = DeclaredKinds(new)
                 /\ outputs' = [key \in BatchKeys |->
                                  IF key[1] < k THEN outputs[key]
                                  ELSE IF key[1] + 1 \in Positions
                                       THEN outputs[<<key[1] + 1, key[2]>>]
                                       ELSE NoSuchOutput]
                 /\ answered' = answered - 1
                 /\ last' = [op |-> "remove", at |-> k, result |-> Ok("unit")]
            ELSE /\ last' = [op |-> "remove", at |-> k, result |-> NoSuchOutput]
                 /\ UNCHANGED <<requests, output_kinds, outputs, answered>>
    /\ UNCHANGED <<req, alive, orig, table, lazy, phase, completed>>

\* Exchange the unanswered entries at positions k and k + 1.
Swap ==
    /\ phase = "in_flight"
    /\ \E k \in answered..(Len(requests) - 2) :
        LET n == Len(requests)
            swap(i) == IF i = k THEN k + 1 ELSE IF i = k + 1 THEN k ELSE i
            order == [p \in 1..n |-> swap(p - 1)]
            mapping == [i \in Positions |-> swap(i)]
            new == Reshaped(order, mapping)
        IN  IF Validated(new)
            THEN /\ requests' = new
                 /\ output_kinds' = DeclaredKinds(new)
                 /\ last' = [op |-> "swap", at |-> k, result |-> Ok("unit")]
            ELSE /\ last' = [op |-> "swap", at |-> k, result |-> NoSuchOutput]
                 /\ UNCHANGED <<requests, output_kinds>>
    /\ UNCHANGED <<req, alive, orig, table, lazy, outputs, answered, phase, completed>>

NextBatch == Push \/ Build \/ Respond \/ Remove \/ Swap

SpecBatch == InitBatch /\ [][NextBatch]_vars

(***************************************************************************)
(* SpecFlow: a batch is built, its responses arrive in request order, and  *)
(* each request is converted with complete() when the caller asks.         *)
(***************************************************************************)
\* complete() on the request at position p; a request that converts is
\* marked completed, a failed conversion leaves the batch as it was.
CompleteAt(p) ==
    /\ phase = "in_flight"
    /\ p < Len(requests)
    /\ p \notin completed
    /\ LET res == Complete(requests[p + 1])
       IN  /\ last' = [op |-> "complete", pos |-> p, pre |-> requests[p + 1],
                        result |-> res]
           /\ completed' = IF res.ok THEN completed \cup {p} ELSE completed
    /\ UNCHANGED <<req, alive, orig, table, lazy, requests, output_kinds, outputs, answered, phase>>

NextFlow ==
    \/ Push
    \/ Build
    \/ Respond
    \/ \E p \in Positions : CompleteAt(p)

\* Every response arrives, and every conversion that is asked for is
\* eventually attempted.
FairFlow ==
    /\ WF_vars(Respond)
    /\ \A p \in Positions : WF_vars(CompleteAt(p))

SpecFlow == InitBatch /\ [][NextFlow]_vars /\ FairFlow

(***************************************************************************)
(* SpecRead: the operations that take the request or the response by       *)
(* shared reference (check_outputs, note_outputs, fill_outputs) and the    *)
(* codec round trip, on any request of the domain.                         *)
(***************************************************************************)
\* check_outputs invokes the predicate only with the triples of r's
\* BackReference fields: the predicates drawn accept any subset of them.
PredicatesFor(r) ==
    SUBSET {CheckCall(r[f]) : f \in {g \in FieldNames : IsBackReference(r[g])}}

\* request.check_outputs(f): &self, the request is not written.
DoCheckOutputs ==
    /\ alive
    /\ \E accepts \in PredicatesFor(req) :
        LET res == CheckOutputs(req, accepts)
        IN  last' = [op |-> "check_outputs", pre |-> req, accepts |-> accepts,
                     result |-> res.result, calls |-> res.calls]
    /\ UNCHANGED <<req, alive, orig, table, lazy, requests, output_kinds, outputs, answered, phase, completed>>

\* request.note_outputs(f)
DoNoteOutputs ==
    /\ alive
    /\ last' = [op |-> "note_outputs", pre |-> req, calls |-> NoteOutputsCalls(req)]
    /\ UNCHANGED <<req, alive, orig, table, lazy, requests, output_kinds, outputs, answered, phase, completed>>

\* response.fill_outputs(f)
DoFillOutputs ==
    /\ \E response \in Responses :
        last' = [op |-> "fill_outputs", response |-> response,
                 calls |-> FillOutputsCalls(response)]
    /\ UNCHANGED <<req, alive, orig, table, lazy, requests, output_kinds, outputs, answered, phase, completed>>

\* rlp::decode(rlp::encode(request)) for the request form that has a codec.
DoRoundTripRequest ==
    /\ alive
    /\ "IncompleteRequest" \in RlpEncodable
    /\ LET items == RlpIncompleteRequest(req)
       IN  last' = [op |-> "roundtrip", form |-> "IncompleteRequest", value |-> req,
                    items |-> items, decoded |-> RlpDecodeIncompleteRequest(items)]
    /\ UNCHANGED <<req, alive, orig, table, lazy, requests, output_kinds, outputs, answered, phase, completed>>

\* rlp::decode(rlp::encode(response))
DoRoundTripResponse ==
    /\ "Response" \in RlpEncodable
    /\ \E response \in Responses :
        LET items == RlpResponse(response)
        IN  last' = [op |-> "roundtrip", form |-> "Response", value |-> response,
                     items |-> items, decoded |-> RlpDecodeResponse(items)]
    /\ UNCHANGED <<req, alive, orig, table, lazy, requests, output_kinds, outputs, answered, phase, completed>>

NextRead ==
    \/ DoCheckOutputs
    \/ DoNoteOutputs
    \/ DoFillOutputs
    \/ DoRoundTripRequest
    \/ DoRoundTripResponse
    \/ DoAdjustRefs

SpecRead == Init /\ [][NextRead]_vars

(***************************************************************************)
(* Claims checked under Spec.                                              *)
(***************************************************************************)
\* C1: complete on a request with at least one field still a BackReference
\* fails with NoSuchOutput and yields no CompleteRequest, whatever fill and
\* adjust_refs calls came before.
C1_CompleteFailsOnBackReference ==
    (last.op = "complete" /\ \E f \in FieldNames : IsBackReference(last.pre[f]))
        => last.result = NoSuchOutput

C1_Witness ==
    /\ last.op = "complete"
    /\ IsScalar(last.pre.block_hash)
    /\ IsScalar(last.pre.address_hash)
    /\ IsBackReference(last.pre.key_hash)
    /\ last.result = NoSuchOutput

\* C2: complete on a request whose three fields are Scalar succeeds, and the
\* CompleteRequest holds, field by field, the scalars of the request.
C2_CompleteKeepsScalars ==
    (last.op = "complete" /\ \A f \in FieldNames : IsScalar(last.pre[f]))
        => /\ last.result.ok
           /\ last.result.val.block_hash = last.pre.block_hash.val
           /\ last.result.val.address_hash = last.pre.address_hash.val
           /\ last.result.val.key_hash = last.pre.key_hash.val

C2_Witness ==
    /\ last.op = "complete"
    /\ last.pre = IncompleteRequest(Scalar(1), Scalar(1), Scalar(2))
    /\ last.result = Ok(CompleteRequest(1, 1, 2))

\* C3: fill treats each field on its own: a BackReference(req, idx) becomes
\* Scalar(v) exactly when the oracle answers Ok(Output::Hash(v)) at (req, idx);
\* on an error or an output of another kind the field stays the same
\* BackReference; a Scalar field is left as it is.
C3_FillPerField ==
    last.op = "fill" =>
        \A f \in FieldNames :
            LET p == last.pre[f]
                q == last.post[f]
            IN  IF IsBackReference(p)
                THEN LET res == last.oracle[<<p.req, p.idx>>]
                     IN  IF res.ok /\ res.val.kind = "Hash"
                         THEN q = Scalar(res.val.val)
                         ELSE q = BackReference(p.req, p.idx)
                ELSE q = p

C3_Witness ==
    /\ last.op = "fill"
    /\ \A f \in FieldNames : IsBackReference(last.pre[f])
    /\ IsScalar(last.post.block_hash)
    /\ IsBackReference(last.post.address_hash)
    /\ ~last.oracle[<<last.pre.address_hash.req, last.pre.address_hash.idx>>].ok
    /\ IsBackReference(last.post.key_hash)
    /\ last.oracle[<<last.pre.key_hash.req, last.pre.key_hash.idx>>].ok

\* C4: over any sequence of fill calls, a field that is Scalar before a fill
\* is Scalar with the same value after it.
C4_FillMonotonic ==
    [][last'.op = "fill" =>
        \A f \in FieldNames : IsScalar(req[f]) => req'[f] = req[f]]_vars

C4_Witness ==
    /\ last.op = "fill"
    /\ \E f \in FieldNames : IsScalar(last.pre[f])
    /\ \E f \in FieldNames : IsBackReference(last.pre[f]) /\ IsScalar(req[f])
    /\ \E f \in FieldNames : IsBackReference(req[f])

\* C5: a second fill with the same oracle leaves the request as the first
\* fill left it.
C5_FillIdempotent ==
    (last.op = "fill" /\ last.repeat) => last.post = last.pre

C5_Witness ==
    /\ last.op = "fill"
    /\ last.repeat
    /\ \E k \in Keys : last.oracle[k].ok /\ last.oracle[k].val.kind = "Hash"
    /\ \E f \in FieldNames :
        /\ IsBackReference(last.pre[f])
        /\ last.oracle[<<last.pre[f].req, last.pre[f].idx>>].ok

C10_AdjustRefsIdentityAndComposition ==
    last.op = "adjust_refs" =>
        /\ last.mapping = Identity => last.post = last.pre
        /\ \A g \in Mappings :
            AdjustRefs(last.post, g) = AdjustRefs(last.pre, Compose(g, last.mapping))

C10_Witness ==
    /\ last.op = "adjust_refs"
    /\ last.mapping # Identity
    /\ last.post # last.pre
    /\ \E f \in FieldNames : IsScalar(last.pre[f])

\* C11: adjust_refs(mapping) changes request indices only: a
\* BackReference(req, idx) becomes BackReference(mapping(req), idx), a Scalar
\* keeps its value, and no field changes between Scalar and BackReference.
C11_AdjustRefsChangesOnlyRequestIndex ==
    last.op = "adjust_refs" =>
        \A f \in FieldNames :
            LET p == last.pre[f]
                q == last.post[f]
            IN  /\ IsScalar(p) => q = p
                /\ IsBackReference(p) =>
                      /\ IsBackReference(q)
                      /\ q.req = last.mapping[p.req]
                      /\ q.idx = p.idx

C11_Witness ==
    /\ last.op = "adjust_refs"
    /\ IsScalar(last.pre.block_hash)
    /\ IsBackReference(last.pre.address_hash)
    /\ IsBackReference(last.pre.key_hash)
    /\ last.post.key_hash.req # last.pre.key_hash.req
    /\ last.post.address_hash.req # last.pre.address_hash.req

(***************************************************************************)
(* Claims checked under SpecStream.                                        *)
(***************************************************************************)
\* C6: with a table that only grows, filling after every newly registered
\* output and filling the original request once after those outputs leave
\* the same request, whatever the order of registration.
C6_StreamingEqualsSinglePass ==
    lazy.done => lazy.req = req

C6_Witness ==
    /\ lazy.done
    /\ Cardinality({k \in Keys : table[k].ok}) >= 2
    /\ \E k \in Keys : table[k].ok /\ table[k].val.kind = "Number"
    /\ \E f \in FieldNames : IsBackReference(orig[f]) /\ IsScalar(req[f])
    /\ \E f \in FieldNames : IsBackReference(req[f])

(***************************************************************************)
(* Claims checked under SpecBatch.                                         *)
(***************************************************************************)
\* C7: check_outputs on a request added to a batch succeeds exactly when
\* every BackReference of the request points to a request that is in the
\* batch before it and to an output that request declares with kind Hash,
\* which is output 0 alone; a reference to output 1 gives NoSuchOutput.
C7_CheckOutputsIffTargetsDeclared ==
    last.op = "push" =>
        /\ last.result.ok <=>
              \A f \in FieldNames :
                  IsBackReference(last.pre[f]) =>
                      /\ last.pre[f].req < last.pos
                      /\ last.pre[f].idx = 0
        /\ (\E f \in FieldNames : IsBackReference(last.pre[f]) /\ last.pre[f].idx = 1)
              => last.result = NoSuchOutput

C7_Witness ==
    /\ last.op = "push"
    /\ last.pos = 1
    /\ last.pre = IncompleteRequest(BackReference(0, 1), Scalar(1), Scalar(1))
    /\ last.result = NoSuchOutput

C12_DeclaredOutputsMatchExposed ==
    /\ last.op = "note_outputs" => last.calls = <<<<0, "Hash">>>>
    /\ last.op = "fill_outputs" =>
          last.calls = <<<<0, [kind |-> "Hash", val |-> last.response.value]>>>>

C12_Witness ==
    /\ last.op = "note_outputs"
    /\ IsBackReference(last.pre.block_hash)
    /\ IsScalar(last.pre.key_hash)
    /\ Len(last.calls) = 1

\* C14: check_outputs leaves the request as it was, whether it returns Ok
\* or NoSuchOutput, and invokes the predicate only for BackReference fields,
\* with the field's (request_index, output_index) and the kind Hash.
C14_CheckOutputsReadsOnly ==
    last.op = "check_outputs" =>
        /\ req = last.pre
        /\ \A i \in 1..Len(last.calls) :
            \E f \in FieldNames :
                /\ IsBackReference(last.pre[f])
                /\ last.calls[i] = <<last.pre[f].req, last.pre[f].idx, "Hash">>
        /\ (\A f \in FieldNames : IsScalar(last.pre[f])) => last.calls = <<>>

C14_Witness ==
    /\ last.op = "check_outputs"
    /\ IsScalar(last.pre.block_hash)
    /\ IsBackReference(last.pre.address_hash)
    /\ IsBackReference(last.pre.key_hash)
    /\ Len(last.calls) = 2
    /\ last.result = NoSuchOutput
    /\ req = last.pre

\* C17: check_outputs examines block_hash, address_hash, key_hash in this
\* order and stops at the first BackReference the predicate rejects: it
\* returns NoSuchOutput and the predicate is not invoked for a later field;
\* it returns Ok only after the predicate accepted every BackReference, and
\* without invoking it when all fields are Scalar.
C17_CheckOutputsStopsAtFirstRejection ==
    last.op = "check_outputs" =>
        LET order == <<"block_hash", "address_hash", "key_hash">>
            isRef(n) == IsBackReference(last.pre[n])
            triple(n) == <<last.pre[n].req, last.pre[n].idx, "Hash">>
            refNames == SelectSeq(order, isRef)
            refs == [i \in 1..Len(refNames) |-> triple(refNames[i])]
            bad == {i \in 1..Len(refNames) : refs[i] \notin last.accepts}
        IN  IF bad = {}
            THEN /\ last.result.ok
                 /\ last.calls = refs
            ELSE LET first == CHOOSE i \in bad : \A j \in bad : i <= j
                 IN  /\ last.result = NoSuchOutput
                     /\ last.calls = SubSeq(refs, 1, first)

C17_Witness ==
    /\ last.op = "check_outputs"
    /\ IsBackReference(last.pre.block_hash)
    /\ IsBackReference(last.pre.address_hash)
    /\ last.pre.address_hash # last.pre.block_hash
    /\ IsBackReference(last.pre.key_hash)
    /\ <<last.pre.block_hash.req, last.pre.block_hash.idx, "Hash">> \in last.accepts
    /\ last.calls = <<<<last.pre.block_hash.req, last.pre.block_hash.idx, "Hash">>,
                      <<last.pre.address_hash.req, last.pre.address_hash.idx, "Hash">>>>
    /\ last.result = NoSuchOutput

AllScalar(r) == \A f \in FieldNames : IsScalar(r[f])

\* The response to A (position 0) is registered and B (position 1) is
\* filled: each field of B that was BackReference(0, 0) is Scalar of the
\* response's value, B's other fields are as they were.
C13_FillResolvesB ==
    (last'.op = "respond" /\ last'.pos = 0 /\ Len(requests) >= 2) =>
        \A f \in FieldNames :
            requests'[2][f] = IF requests[2][f] = BackReference(0, 0)
                              THEN Scalar(last'.value)
                              ELSE requests[2][f]

\* complete(B) once A's response is registered: it succeeds, with the
\* scalars of B's fields.
C13_CompleteBSucceeds ==
    (last.op = "complete" /\ last.pos = 1 /\ answered >= 1) =>
        /\ AllScalar(last.pre)
        /\ last.result = Ok(CompleteRequest(last.pre.block_hash.val,
                                            last.pre.address_hash.val,
                                            last.pre.key_hash.val))

\* C13: in a batch [A, B] with A all Scalar and a field of B a
\* BackReference to output 0 of A, once A's response is registered through
\* fill_outputs and B is filled from the table, that field of B is Scalar of
\* the response's value, and complete(B) succeeds.
C13_BatchOfTwoResolves ==
    /\ [][C13_FillResolvesB]_vars
    /\ [](C13_CompleteBSucceeds)

\* B = (BackReference(0, 0), Scalar(1), Scalar(1)), A answered with 2, and
\* complete(B) has produced (2, 1, 1).
C13_Witness ==
    /\ last.op = "complete"
    /\ last.pos = 1
    /\ Len(requests) = 2
    /\ outputs[<<0, 0>>] = Ok(OutputHash(2))
    /\ last.pre = IncompleteRequest(Scalar(2), Scalar(1), Scalar(1))
    /\ last.result = Ok(CompleteRequest(2, 1, 1))
    /\ 1 \in completed

\* Every request whose earlier responses are all registered has only Scalar
\* fields.
C16_ResolvedWhenEarlierAnswered ==
    phase = "in_flight" =>
        \A p \in 0..(Len(requests) - 1) :
            answered >= p => AllScalar(requests[p + 1])

\* complete() on such a request succeeds.
C16_CompleteSucceeds ==
    (last.op = "complete" /\ answered >= last.pos) =>
        /\ last.result.ok
        /\ last.pos \in completed

AllCompleted == completed = 0..(Len(requests) - 1)

\* C16: in a batch whose every back-reference passed check_outputs, with the
\* responses registered in request order and the downstream requests filled
\* after each one, every request has all fields Scalar by the time all
\* earlier responses are registered, complete succeeds on it, and eventually
\* every request of the batch is completed.
C16_BatchCompletes ==
    /\ [](C16_ResolvedWhenEarlierAnswered)
    /\ [](C16_CompleteSucceeds)
    /\ (phase = "in_flight") ~> AllCompleted

\* A batch of three, the later two referring back, all answered and all
\* completed.
C16_Witness ==
    /\ phase = "in_flight"
    /\ Len(requests) = MaxBatch
    /\ answered = Len(requests)
    /\ AllCompleted
    /\ outputs[<<0, 0>>] = Ok(OutputHash(2))
    /\ requests[2].block_hash = Scalar(2)
    /\ requests[3].key_hash = Scalar(2)

====
